---- MODULE Spec2Model ----
(***************************************************************************)
(* Model of the render pipeline of the retinotopic-mapping stimuli:        *)
(* OnScreenDisplay (util/display.py) and the calls the application makes   *)
(* on it (app.py).  One display object, the threads main_loop() spawns on  *)
(* it, the UI thread that runs repaint() on every timer tick, and a caller *)
(* of main_loop() / stop_running().                                        *)
(***************************************************************************)
EXTENDS Integers, FiniteSets, Sequences, TLC

\* Bounds of the model.
MaxThreads == 2     \* threads main_loop() may spawn in one behaviour
MaxNow == 1         \* last value of the wall clock time.time()
MaxGenT == 4        \* largest elapsed time passed to a generator on its own
MaxCalls == 2       \* calls of generate_img made on one generator on its own
MaxImages == 2      \* largest number of images of a sequence
MaxElapsed == 9     \* last value of time.time() - tic in the loop on its own
MaxFrames == 4      \* iterations of the loop on its own
MaxRingT == 8       \* largest t the ring radius is computed for
MaxDuration == 4    \* largest config.eccentricityMapping.duration
MaxColors == 3      \* longest CONFIG.focusPoint.colors
MaxDelay == 2       \* largest draw of uniform(tMin, tMax)
MaxRuns == 2        \* runs of the loop over one SequenceStimuli

Threads == 1..MaxThreads

VARIABLES
    running,           \* OnScreenDisplay.running
    pixmap,            \* OnScreenDisplay.pixmap, the frame slot
    pixmap_container,  \* what QLabel pixmap_container shows (last setPixmap)
    rlock,             \* OnScreenDisplay._rlock: [owner, count]
    threads,           \* per spawned thread: position in _main_loop and its locals
    ui,                \* position of the UI thread in repaint()
    now,               \* time.time()
    lastOp,            \* history: the last call, "start" (main_loop()), "stop"
                       \* (stop_running()) or "restart" (main_loop() after stop_running())
    lastPubImg,        \* history: the img of the last completed store to pixmap
    app,               \* app.py: [wait |-> namespace.wait, phase |-> where __main__ is,
                       \* keyerr |-> what became of an exception in the key handler]
    gens,              \* generators on their own: [cls, cfg, copy], copy[c] the
                       \* fields of copy c and what its last generate_img call did
    rep,               \* one _main_loop on its own: its locals i, t and
                       \* next_report_time, the clock and the samples printed
    ring,              \* the ring radius on its own: the configuration, t,
                       \* and r_center at t and one duration later
    focus,             \* the focus point on its own: CONFIG.focusPoint
                       \* (colors, tMin, tMax), t_next_change_focus_color,
                       \* and the t and the head colour of the last
                       \* change_focus_color
    seqrun,            \* one SequenceStimuli over several runs of the loop:
                       \* self.idx, and per run the trials reached and the
                       \* 'Display img' lines logged
    ctor               \* the object: "base" (an OnScreenDisplay()), "init" (a mapping
                       \* inside its __init__, after super().__init__()), "done" (a mapping)

\* The display object and its threads.
displayVars == <<running, pixmap, pixmap_container, rlock, threads, ui, now,
                 lastOp, lastPubImg>>

\* What the methods of the display object leave alone.
auxVars == <<app, ctor, gens, rep, ring, focus, seqrun>>

vars == <<displayVars, auxVars>>

----------------------------------------------------------------------------
\* Values

UiThread == 0

\* self.pixmap = None (class attribute) and "no image".
None == [kind |-> "none", src |-> "none", t |-> 0]

\* The PIL image read from config.prompt.img and fitted by place_img.
PromptImg == [kind |-> "img", src |-> "prompt", t |-> 0]

\* generate_img(t): the PIL image of the stimulus at elapsed time t.  The
\* picture is a function of t and the (constant) configuration.
generate_img(t) == [kind |-> "img", src |-> "gen", t |-> t]

\* A conversion that loses the content of the image.
FromImageLossy(img) == [kind |-> "pixmap", src |-> img.src, t |-> 0]

\* QPixmap.fromImage(ImageQt(img)): a pixmap with the content of img.
FromImage(img) == [kind |-> "pixmap", src |-> img.src, t |-> img.t]

\* Truth value of an object in `if pixmap := self.pixmap`.
Truthy(p) == p.kind # "none"

\* A place_img that stores nothing.
place_img_nothing(img) == None

\* place_img(img): the store of the fitted image (called by place_prompt_img
\* from the constructor).
place_img(img) == FromImage(img)

\* A generator nobody has called: config.imgSequence and len(self.names) in
\* cfg, and per copy self.idx after setup(), the index into self.names of the
\* last 'Display img' log line, the last t passed, the outcome of the last
\* call (None: not called) and the number of calls.
Copies == {1, 2}
NoCall == [idx |-> -1, logged |-> -1, t |-> 0, out |-> None, calls |-> 0]
NoCfg == [paddingBefore |-> 0, duration |-> 0, paddingAfter |-> 0, N |-> 0]
NoGens == [cls |-> "none", cfg |-> NoCfg, copy |-> [c \in Copies |-> NoCall]]

\* _main_loop: report_interval = 2  # Seconds
report_interval == 2

\* The locals of a _main_loop nobody runs.
NoLoop == [pc |-> "none", i |-> 0, t |-> 0, next_report_time |-> 0,
           elapsed |-> 0, nsamples |-> 0]

\* A radius as a fraction num / den of pixels (den > 0).
Frac(num, den) == [num |-> num, den |-> den]

\* No ring radius computed.
NoRing == [cfg |-> [minRadius |-> 0, maxRadius |-> 0, duration |-> 0],
           called |-> FALSE, t |-> 0, r |-> Frac(0, 1), rNext |-> Frac(0, 1)]

\* No SequenceStimuli run.
NoSeqRun == [cfg |-> [paddingBefore |-> 0, duration |-> 0, paddingAfter |-> 0, N |-> 0],
             idx |-> -1, runs |-> 0, alive |-> FALSE, t |-> 0,
             reached |-> {}, events |-> <<>>]

\* No focus point configured.
NoFocus == [colors |-> <<>>, tMin |-> 0, tMax |-> 0,
            t_next_change_focus_color |-> 0,
            called |-> FALSE, before |-> "none", t |-> 0]

\* Locals of a thread that has not been spawned, or are not live.
NoThread == [pc |-> "none", tic |-> 0, t |-> 0, img |-> None]

\* The threads whose _main_loop has not returned or died.
Alive(w) == threads[w].pc \notin {"none", "done", "uncaught"}
AliveThreads == {w \in Threads : Alive(w)}
Spawned == {w \in Threads : threads[w].pc # "none"}

FreeLock == [owner |-> -1, count |-> 0]

\* A lock that excludes nobody.
CanAcquireAlways(th) == TRUE

\* RLock.acquire() by thread th does not block.
CanAcquire(th) == rlock.count = 0 \/ rlock.owner = th

\* A block that takes the lock a second time inside itself.
AcquiredNested(th) == [owner |-> th, count |-> rlock.count + 2]

\* RLock.acquire() / RLock.release().
Acquired(th) == [owner |-> th, count |-> rlock.count + 1]
Released == IF rlock.count <= 1 THEN FreeLock
            ELSE [rlock EXCEPT !.count = rlock.count - 1]

----------------------------------------------------------------------------
\* State after construction: EccentricityMapping() / PolarAngleMapping() has
\* run __init__, which placed the prompt image.

Init ==
    /\ running = FALSE
    /\ pixmap = place_img(PromptImg)
    /\ pixmap_container = None
    /\ rlock = FreeLock
    /\ threads = [w \in Threads |-> NoThread]
    /\ ui = "idle"
    /\ now = 0
    /\ lastOp = "none"
    /\ lastPubImg = PromptImg
    /\ app = [wait |-> FALSE, phase |-> "none", keyerr |-> "none"]
    /\ ctor = "done"
    /\ gens = NoGens
    /\ rep = NoLoop
    /\ ring = NoRing
    /\ focus = NoFocus
    /\ seqrun = NoSeqRun

----------------------------------------------------------------------------
\* The caller of the display's interface

\* Thread(target=self._main_loop, daemon=True).start(): the effect of
\* main_loop() on the display object.
main_loop_call ==
    /\ Cardinality(Spawned) < MaxThreads
    /\ LET w == Cardinality(Spawned) + 1 IN
         threads' = [threads EXCEPT ![w] = [NoThread EXCEPT !.pc = "spawned"]]
    /\ lastOp' = IF lastOp = "stop" THEN "restart" ELSE "start"
    /\ UNCHANGED <<running, pixmap, pixmap_container, rlock, ui, now, lastPubImg>>

\* self.running = False: the effect of stop_running() on the display object.
stop_running_call ==
    /\ running' = FALSE
    /\ lastOp' = "stop"
    /\ UNCHANGED <<pixmap, pixmap_container, rlock, threads, ui, now,
                   lastPubImg>>

\* main_loop(), called on the display object
main_loop ==
    /\ main_loop_call
    /\ UNCHANGED auxVars

\* stop_running(), called on the display object
stop_running ==
    /\ stop_running_call
    /\ UNCHANGED auxVars

----------------------------------------------------------------------------
\* _main_loop, run by thread w

\* self.running = True; tic = time.time(); i = 0
LoopStart(w) ==
    /\ threads[w].pc = "spawned"
    /\ running' = TRUE
    /\ threads' = [threads EXCEPT ![w] = [@ EXCEPT !.pc = "while", !.tic = now]]
    /\ UNCHANGED <<pixmap, pixmap_container, rlock, ui, now, lastOp,
                   lastPubImg>>
    /\ UNCHANGED auxVars

\* A loop test that measures the elapsed time from the origin of the first run.
LoopTestFirstOrigin(w) ==
    /\ threads[w].pc = "while"
    /\ threads' = [threads EXCEPT ![w] =
                     IF running
                     THEN [@ EXCEPT !.pc = "generate", !.t = now - threads[1].tic]
                     ELSE [NoThread EXCEPT !.pc = "done"]]
    /\ UNCHANGED <<running, pixmap, pixmap_container, rlock, ui, now, lastOp,
                   lastPubImg>>
    /\ UNCHANGED auxVars

\* while self.running: i += 1; t = time.time() - tic
\* and, when the test fails, the return of _main_loop.
LoopTest(w) ==
    /\ threads[w].pc = "while"
    /\ threads' = [threads EXCEPT ![w] =
                     IF running
                     THEN [@ EXCEPT !.pc = "generate", !.t = now - threads[w].tic]
                     ELSE [NoThread EXCEPT !.pc = "done"]]
    /\ UNCHANGED <<running, pixmap, pixmap_container, rlock, ui, now, lastOp,
                   lastPubImg>>
    /\ UNCHANGED auxVars

\* img = self.generate_img(t), returning (OnScreenDisplay itself defines no
\* generate_img: there the call raises AttributeError)
GenerateOk(w) ==
    /\ threads[w].pc = "generate"
    /\ ctor # "base"
    /\ threads' = [threads EXCEPT ![w] =
                     [@ EXCEPT !.pc = "check", !.img = generate_img(threads[w].t)]]
    /\ UNCHANGED <<running, pixmap, pixmap_container, rlock, ui, now, lastOp,
                   lastPubImg>>
    /\ UNCHANGED auxVars

\* A failing generate_img that also blanks the frame slot.
GenerateRaiseBlank(w) ==
    /\ threads[w].pc = "generate"
    /\ threads' = [threads EXCEPT ![w] = [NoThread EXCEPT !.pc = "uncaught"]]
    /\ pixmap' = None
    /\ UNCHANGED <<running, pixmap_container, rlock, ui, now, lastOp, lastPubImg>>
    /\ UNCHANGED auxVars

\* img = self.generate_img(t), raising: nothing in _main_loop catches, the
\* exception leaves the thread's target and the thread ends.
GenerateRaise(w) ==
    /\ threads[w].pc = "generate"
    /\ threads' = [threads EXCEPT ![w] = [NoThread EXCEPT !.pc = "uncaught"]]
    /\ UNCHANGED <<running, pixmap, pixmap_container, rlock, ui, now, lastOp,
                   lastPubImg>>
    /\ UNCHANGED auxVars

\* if self.running: (else falls through to the report and the loop test)
CheckRunning(w) ==
    /\ threads[w].pc = "check"
    /\ threads' = [threads EXCEPT ![w] =
                     IF running
                     THEN [@ EXCEPT !.pc = "acquire"]
                     ELSE [@ EXCEPT !.pc = "while", !.t = 0, !.img = None]]
    /\ UNCHANGED <<running, pixmap, pixmap_container, rlock, ui, now, lastOp,
                   lastPubImg>>
    /\ UNCHANGED auxVars

\* A publish that enters its block without taking the lock.
PublishAcquireNoLock(w) ==
    /\ threads[w].pc = "acquire"
    /\ threads' = [threads EXCEPT ![w] = [@ EXCEPT !.pc = "store"]]
    /\ UNCHANGED <<running, pixmap, pixmap_container, rlock, ui, now, lastOp,
                   lastPubImg>>
    /\ UNCHANGED auxVars

\* with self.acquire_lock(): self._rlock.acquire()
PublishAcquire(w) ==
    /\ threads[w].pc = "acquire"
    /\ CanAcquire(w)
    /\ rlock' = Acquired(w)
    /\ threads' = [threads EXCEPT ![w] = [@ EXCEPT !.pc = "store"]]
    /\ UNCHANGED <<running, pixmap, pixmap_container, ui, now, lastOp,
                   lastPubImg>>
    /\ UNCHANGED auxVars

\* self.pixmap = QPixmap.fromImage(ImageQt(img)), then the exit of the with
\* block (finally: self._rlock.release()), the frame-rate report and back to
\* the loop test.
PublishStore(w) ==
    /\ threads[w].pc = "store"
    /\ pixmap' = FromImage(threads[w].img)
    /\ lastPubImg' = threads[w].img
    /\ rlock' = Released
    /\ threads' = [threads EXCEPT ![w] =
                     [@ EXCEPT !.pc = "while", !.t = 0, !.img = None]]
    /\ UNCHANGED <<running, pixmap_container, ui, now, lastOp>>
    /\ UNCHANGED auxVars

ThreadStep(w) ==
    \/ LoopStart(w)
    \/ LoopTest(w)
    \/ GenerateOk(w)
    \/ GenerateRaise(w)
    \/ CheckRunning(w)
    \/ PublishAcquire(w)
    \/ PublishStore(w)

----------------------------------------------------------------------------
\* repaint(), run by the UI thread on every timeout of the QTimer

\* with self.acquire_lock(): self._rlock.acquire()
RepaintAcquire ==
    /\ ui = "idle"
    /\ CanAcquire(UiThread)
    /\ rlock' = Acquired(UiThread)
    /\ ui' = "locked"
    /\ UNCHANGED <<running, pixmap, pixmap_container, threads, now, lastOp,
                   lastPubImg>>
    /\ UNCHANGED auxVars

\* A repaint that does not test the pixmap: setPixmap(None) raises TypeError.
RepaintBodyUntested ==
    /\ ui = "locked"
    /\ pixmap_container' = IF Truthy(pixmap) THEN pixmap ELSE pixmap_container
    /\ rlock' = Released
    /\ ui' = IF Truthy(pixmap) THEN "idle" ELSE "raised"
    /\ UNCHANGED <<running, pixmap, threads, now, lastOp, lastPubImg>>
    /\ UNCHANGED auxVars

\* if pixmap := self.pixmap: self.pixmap_container.setPixmap(pixmap)
\* then the exit of the with block (finally: self._rlock.release()); return
RepaintBody ==
    /\ ui = "locked"
    /\ pixmap_container' = IF Truthy(pixmap) THEN pixmap ELSE pixmap_container
    /\ rlock' = Released
    /\ ui' = "idle"
    /\ UNCHANGED <<running, pixmap, threads, now, lastOp, lastPubImg>>
    /\ UNCHANGED auxVars

repaint == RepaintAcquire \/ RepaintBody

----------------------------------------------------------------------------
\* The wall clock advances.
Tick ==
    /\ now < MaxNow
    /\ now' = now + 1
    /\ UNCHANGED <<running, pixmap, pixmap_container, rlock, threads, ui,
                   lastOp, lastPubImg>>
    /\ UNCHANGED auxVars

Next ==
    \/ main_loop
    \/ stop_running
    \/ \E w \in Threads : ThreadStep(w)
    \/ repaint
    \/ Tick

Spec == Init /\ [][Next]_vars

\* Fair scheduling: a thread that can run infinitely often does run, and a
\* repaint that has started runs to its end.
FairSpec ==
    /\ Init /\ [][Next]_vars
    /\ \A w \in Threads : SF_vars(ThreadStep(w))
    /\ WF_vars(RepaintBody)

----------------------------------------------------------------------------
\* The display with a publish whose body can raise: the conversion
\* QPixmap.fromImage(ImageQt(img)) fails inside the with block.

\* A raise in the block that leaves the lock with the dead thread.
PublishRaiseKeepsLock(w) ==
    /\ threads[w].pc = "store"
    /\ threads' = [threads EXCEPT ![w] =
                     [NoThread EXCEPT !.pc = "uncaught", !.img = threads[w].img]]
    /\ UNCHANGED <<running, pixmap, pixmap_container, rlock, ui, now, lastOp,
                   lastPubImg>>
    /\ UNCHANGED auxVars

\* The body of `with self.acquire_lock():` raises: acquire_lock's
\* finally: self._rlock.release() runs, nothing is stored, and the exception
\* leaves _main_loop uncaught, so the thread ends.
PublishRaise(w) ==
    /\ threads[w].pc = "store"
    /\ rlock' = Released
    /\ threads' = [threads EXCEPT ![w] =
                     [NoThread EXCEPT !.pc = "uncaught", !.img = threads[w].img]]
    /\ UNCHANGED <<running, pixmap, pixmap_container, ui, now, lastOp,
                   lastPubImg>>
    /\ UNCHANGED auxVars

LockNext == Next \/ \E w \in Threads : PublishRaise(w)

LockSpec == Init /\ [][LockNext]_vars

----------------------------------------------------------------------------
\* The application, app.py: __main__ with its handlers.  The handlers and
\* repaint() all run on the thread of the Qt event loop, one at a time.

\* State at the start of __main__'s set-up of the main loop (app.py line 57):
\* the mapping is constructed, namespace.wait is -w.
AppInit ==
    /\ running = FALSE
    /\ pixmap = place_img(PromptImg)
    /\ pixmap_container = None
    /\ rlock = FreeLock
    /\ threads = [w \in Threads |-> NoThread]
    /\ ui = "idle"
    /\ now = 0
    /\ lastOp = "none"
    /\ lastPubImg = PromptImg
    /\ app \in [wait : BOOLEAN, phase : {"main"}, keyerr : {"none"}]
    /\ ctor = "done"
    /\ gens = NoGens
    /\ rep = NoLoop
    /\ ring = NoRing
    /\ focus = NoFocus
    /\ seqrun = NoSeqRun

\* mapping.window.show(); if not namespace.wait: mapping.main_loop(); the
\* handlers are bound, the timer started and app.exec() entered.
AppStart ==
    /\ app.phase = "main"
    /\ app' = [app EXCEPT !.phase = "exec"]
    /\ IF app.wait THEN UNCHANGED displayVars ELSE main_loop_call
    /\ UNCHANGED <<ctor, gens, rep, ring, focus, seqrun>>

\* _on_timeout(): mapping.repaint()
on_timeout ==
    \/ app.phase = "exec" /\ RepaintAcquire
    \/ app.phase # "exited" /\ RepaintBody

\* _on_key_pressed(event) with the quit key: mapping.app.quit()
KeyQuit ==
    /\ app.phase = "exec" /\ ui = "idle"
    /\ app' = [app EXCEPT !.phase = "quitting"]
    /\ UNCHANGED <<displayVars, ctor, gens, rep, ring, focus, seqrun>>

\* A start key that starts the loop whatever the mode.
KeyStartAlways ==
    /\ app.phase = "exec" /\ ui = "idle"
    /\ main_loop_call
    /\ UNCHANGED auxVars

\* _on_key_pressed(event) with the start key:
\* if namespace.wait and enum.name == config.control.startKeyName: mapping.main_loop()
KeyStart ==
    /\ app.phase = "exec" /\ ui = "idle"
    /\ IF app.wait THEN main_loop_call ELSE UNCHANGED displayVars
    /\ UNCHANGED auxVars

\* _on_key_pressed(event) whose body raises (Qt.Key(key) rejects the key
\* code, or main_loop() cannot start a thread): except Exception as err:
\* logger.error(...); the handler returns and the event loop goes on.
KeyRaise ==
    /\ app.phase = "exec" /\ ui = "idle"
    /\ app' = [app EXCEPT !.keyerr = "logged"]
    /\ UNCHANGED <<displayVars, ctor, gens, rep, ring, focus, seqrun>>

\* An aboutToQuit that nothing is connected to.
about_to_quit_unbound ==
    /\ app.phase = "quitting"
    /\ app' = [app EXCEPT !.phase = "stopped"]
    /\ UNCHANGED <<displayVars, ctor, gens, rep, ring, focus, seqrun>>

\* _about_to_quit(), on aboutToQuit: mapping.stop_running()
about_to_quit ==
    /\ app.phase = "quitting"
    /\ stop_running_call
    /\ app' = [app EXCEPT !.phase = "stopped"]
    /\ UNCHANGED <<ctor, gens, rep, ring, focus, seqrun>>

\* sys.exit(mapping.app.exec()): the process exits; its daemon threads stop
\* where they are.
ProcessExit ==
    /\ app.phase = "stopped"
    /\ app' = [app EXCEPT !.phase = "exited"]
    /\ UNCHANGED <<displayVars, ctor, gens, rep, ring, focus, seqrun>>

\* A thread of the process runs.
AppThreadStep == app.phase # "exited" /\ \E w \in Threads : ThreadStep(w)

AppTick == app.phase # "exited" /\ Tick

AppNext ==
    \/ AppStart
    \/ on_timeout
    \/ KeyQuit
    \/ KeyStart
    \/ KeyRaise
    \/ about_to_quit
    \/ ProcessExit
    \/ AppThreadStep
    \/ AppTick

AppSpec == AppInit /\ [][AppNext]_vars

----------------------------------------------------------------------------
\* Construction of the display object

\* State after OnScreenDisplay.__init__: of an OnScreenDisplay() itself, or
\* of a mapping whose __init__ has just run super().__init__().
CtorInit ==
    /\ running = FALSE
    /\ pixmap = None
    /\ pixmap_container = None
    /\ rlock = FreeLock
    /\ threads = [w \in Threads |-> NoThread]
    /\ ui = "idle"
    /\ now = 0
    /\ lastOp = "none"
    /\ lastPubImg = None
    /\ app = [wait |-> FALSE, phase |-> "none", keyerr |-> "none"]
    /\ ctor \in {"base", "init"}
    /\ gens = NoGens
    /\ rep = NoLoop
    /\ ring = NoRing
    /\ focus = NoFocus
    /\ seqrun = NoSeqRun

\* self.place_prompt_img() in __init__: place_img stores
\* self.pixmap = QPixmap.fromImage(ImageQt(bg)), taking no lock.
place_prompt_img ==
    /\ ctor = "init"
    /\ pixmap' = place_img(PromptImg)
    /\ lastPubImg' = PromptImg
    /\ ctor' = "done"
    /\ UNCHANGED <<running, pixmap_container, rlock, threads, ui, now, lastOp, app, gens, rep, ring, focus, seqrun>>

\* The constructed object in use.
CtorUse == ctor # "init" /\ Next

CtorNext == place_prompt_img \/ CtorUse

CtorSpec == CtorInit /\ [][CtorNext]_vars

----------------------------------------------------------------------------
\* The generators on their own: generate_img called directly, at any times,
\* on two copies of one generator.  Times are whole numbers of one time unit.

\* The exception a call ended with.
Raised(name) == [kind |-> "raise", src |-> name, t |-> 0]

\* setup(): self.trial_length = cis.paddingBefore + cis.paddingAfter + cis.duration
trial_length(cfg) == cfg.paddingBefore + cfg.paddingAfter + cfg.duration

\* Two mappings (ring or wedge), or two SequenceStimuli after setup() with
\* the same configuration and images.
GenInit ==
    /\ running = FALSE
    /\ pixmap = place_img(PromptImg)
    /\ pixmap_container = None
    /\ rlock = FreeLock
    /\ threads = [w \in Threads |-> NoThread]
    /\ ui = "idle"
    /\ now = 0
    /\ lastOp = "none"
    /\ lastPubImg = PromptImg
    /\ app = [wait |-> FALSE, phase |-> "none", keyerr |-> "none"]
    /\ ctor = "done"
    /\ rep = NoLoop
    /\ ring = NoRing
    /\ focus = NoFocus
    /\ seqrun = NoSeqRun
    /\ \/ gens = [NoGens EXCEPT !.cls = "ring"]
       \/ \E pb \in {0, 1}, d \in {1, 2}, pa \in {0, 1}, n \in 1..MaxImages :
             gens = [NoGens EXCEPT !.cls = "sequence",
                        !.cfg = [paddingBefore |-> pb, duration |-> d,
                                 paddingAfter |-> pa, N |-> n]]

\* A generate_img whose picture drifts with the number of calls made.
RingGenerateCounting(c, t) ==
    /\ gens.cls = "ring"
    /\ gens.copy[c].calls < MaxCalls
    /\ gens' = [gens EXCEPT !.copy[c] =
                   [gens.copy[c] EXCEPT
                       !.t = t,
                       !.out = generate_img((t + gens.copy[c].calls) % (MaxGenT + 1)),
                       !.calls = gens.copy[c].calls + 1]]
    /\ UNCHANGED <<displayVars, app, ctor, rep, ring, focus, seqrun>>

\* EccentricityMapping.generate_img(t) / PolarAngleMapping.generate_img(t):
\* reads config and self.width, self.height, self.debug, returns the image.
RingGenerate(c, t) ==
    /\ gens.cls = "ring"
    /\ gens.copy[c].calls < MaxCalls
    /\ gens' = [gens EXCEPT !.copy[c] =
                   [gens.copy[c] EXCEPT
                       !.t = t,
                       !.out = generate_img(t),
                       !.calls = gens.copy[c].calls + 1]]
    /\ UNCHANGED <<displayVars, app, ctor, rep, ring, focus, seqrun>>

\* SequenceStimuli.generate_img(t): idx = int(t // self.trial_length);
\* get_and_prepare_img: name = self.names[idx % len(self.names)];
\* if idx > self.idx: self.idx = idx (and the 'Display img' log line);
\* then np.array(img) reads the local img before its assignment (the line
\* that fetched self.imgs[...] is commented out): UnboundLocalError.  The rest
\* of generate_img is never reached.
SeqGenerate(c, t) ==
    /\ gens.cls = "sequence"
    /\ gens.copy[c].calls < MaxCalls
    /\ LET idx == t \div trial_length(gens.cfg)
           name == idx % gens.cfg.N
           newer == idx > gens.copy[c].idx
       IN  gens' = [gens EXCEPT !.copy[c] =
                      [idx |-> IF newer THEN idx ELSE gens.copy[c].idx,
                       logged |-> IF newer THEN name ELSE gens.copy[c].logged,
                       t |-> t,
                       out |-> Raised("UnboundLocalError"),
                       calls |-> gens.copy[c].calls + 1]]
    /\ UNCHANGED <<displayVars, app, ctor, rep, ring, focus, seqrun>>

GenNext ==
    \E c \in Copies, t \in 0..MaxGenT : RingGenerate(c, t) \/ SeqGenerate(c, t)

GenSpec == GenInit /\ [][GenNext]_vars

----------------------------------------------------------------------------
\* One _main_loop on its own, with its frame-rate report.  Times are whole
\* seconds; rep.elapsed is time.time() - tic.

\* The loop after its prologue: next_report_time = report_interval,
\* self.running = True, tic = time.time(), i = 0.
ReportInit ==
    /\ running = TRUE
    /\ pixmap = place_img(PromptImg)
    /\ pixmap_container = None
    /\ rlock = FreeLock
    /\ threads = [w \in Threads |-> NoThread]
    /\ ui = "idle"
    /\ now = 0
    /\ lastOp = "start"
    /\ lastPubImg = PromptImg
    /\ app = [wait |-> FALSE, phase |-> "none", keyerr |-> "none"]
    /\ ctor = "done"
    /\ gens = NoGens
    /\ ring = NoRing
    /\ focus = NoFocus
    /\ seqrun = NoSeqRun
    /\ rep = [pc |-> "while", i |-> 0, t |-> 0,
              next_report_time |-> report_interval,
              elapsed |-> 0, nsamples |-> 0]

\* time.time() moves on.
RepTick ==
    /\ rep.pc # "done"
    /\ rep.elapsed < MaxElapsed
    /\ rep' = [rep EXCEPT !.elapsed = rep.elapsed + 1]
    /\ UNCHANGED <<displayVars, app, ctor, gens, ring, focus, seqrun>>

\* stop_running() from the main thread.
RepStop ==
    /\ running
    /\ running' = FALSE
    /\ UNCHANGED <<pixmap, pixmap_container, rlock, threads, ui, now, lastOp,
                   lastPubImg, auxVars>>

\* while self.running: i += 1; t = time.time() - tic; the frame is
\* generated and published; or the loop ends.
RepIterate ==
    /\ rep.pc = "while"
    /\ IF running
       THEN /\ rep.i < MaxFrames
            /\ rep' = [rep EXCEPT !.pc = "report", !.i = rep.i + 1,
                                  !.t = rep.elapsed]
       ELSE rep' = [rep EXCEPT !.pc = "done"]
    /\ UNCHANGED <<displayVars, app, ctor, gens, ring, focus, seqrun>>

\* The report with a deadline that moves by the interval.
RepReportLinear ==
    /\ rep.pc = "report"
    /\ IF rep.t > rep.next_report_time
       THEN rep' = [rep EXCEPT !.pc = "while",
                       !.nsamples = rep.nsamples + 1,
                       !.next_report_time = rep.next_report_time + report_interval]
       ELSE rep' = [rep EXCEPT !.pc = "while"]
    /\ UNCHANGED <<displayVars, app, ctor, gens, ring, focus, seqrun>>

\* if t > next_report_time: print(f'Frame rate: {i/t:0.2f}');
\* next_report_time += next_report_time
RepReport ==
    /\ rep.pc = "report"
    /\ IF rep.t > rep.next_report_time
       THEN rep' = [rep EXCEPT !.pc = "while",
                       !.nsamples = rep.nsamples + 1,
                       !.next_report_time = rep.next_report_time + rep.next_report_time]
       ELSE rep' = [rep EXCEPT !.pc = "while"]
    /\ UNCHANGED <<displayVars, app, ctor, gens, ring, focus, seqrun>>

ReportNext == RepTick \/ RepStop \/ RepIterate \/ RepReport

ReportSpec == ReportInit /\ [][ReportNext]_vars

----------------------------------------------------------------------------
\* The centre radius of the ring (EccentricityMapping.generate_img), for
\* whole seconds t and whole-pixel radii, as an exact fraction.

\* The radius without the wrap of t.
r_center_unwrapped(cem, t) ==
    Frac(cem.minRadius * cem.duration + t * (cem.maxRadius - cem.minRadius),
         cem.duration)

\* r_center = cem.minRadius + ((t % cem.duration) / cem.duration) *
\*                (cem.maxRadius - cem.minRadius)
r_center(cem, t) ==
    Frac(cem.minRadius * cem.duration
            + (t % cem.duration) * (cem.maxRadius - cem.minRadius),
         cem.duration)

\* Configurations with minRadius < maxRadius and a positive duration.
RingInit ==
    /\ running = FALSE
    /\ pixmap = place_img(PromptImg)
    /\ pixmap_container = None
    /\ rlock = FreeLock
    /\ threads = [w \in Threads |-> NoThread]
    /\ ui = "idle"
    /\ now = 0
    /\ lastOp = "none"
    /\ lastPubImg = PromptImg
    /\ app = [wait |-> FALSE, phase |-> "none", keyerr |-> "none"]
    /\ ctor = "done"
    /\ gens = NoGens
    /\ rep = NoLoop
    /\ focus = NoFocus
    /\ seqrun = NoSeqRun
    /\ \E lo \in {0, 1, 50}, hi \in {2, 51, 150}, d \in 1..MaxDuration :
          /\ lo < hi
          /\ ring = [NoRing EXCEPT !.cfg = [minRadius |-> lo, maxRadius |-> hi,
                                         duration |-> d]]

\* generate_img(t) and generate_img(t + duration) compute their r_center.
RingCall(t) ==
    /\ ring' = [ring EXCEPT !.called = TRUE, !.t = t,
                            !.r = r_center(ring.cfg, t),
                            !.rNext = r_center(ring.cfg, t + ring.cfg.duration)]
    /\ UNCHANGED <<displayVars, app, ctor, gens, rep, focus, seqrun>>

RingNext == \E t \in 0..MaxRingT : RingCall(t)

RingSpec == RingInit /\ [][RingNext]_vars

----------------------------------------------------------------------------
\* The focus point colour (SequenceStimuli.change_focus_color) on its own.

Palette == {"red", "green", "blue"}

\* np.random.shuffle(s): every order of the elements of s.
Shuffles(s) ==
    IF s = <<>> THEN {<<>>}
    ELSE {[i \in 1..Len(s) |-> s[p[i]]] : p \in Permutations(1..Len(s))}

\* A non-empty colour list from the configuration, repeats allowed.
ColorInit ==
    /\ running = FALSE
    /\ pixmap = place_img(PromptImg)
    /\ pixmap_container = None
    /\ rlock = FreeLock
    /\ threads = [w \in Threads |-> NoThread]
    /\ ui = "idle"
    /\ now = 0
    /\ lastOp = "none"
    /\ lastPubImg = PromptImg
    /\ app = [wait |-> FALSE, phase |-> "none", keyerr |-> "none"]
    /\ ctor = "done"
    /\ gens = NoGens
    /\ rep = NoLoop
    /\ ring = NoRing
    /\ seqrun = NoSeqRun
    /\ \E n \in 1..MaxColors, lo \in 1..MaxDelay, hi \in 1..MaxDelay :
          \E cs \in [1..n -> Palette] :
             /\ lo <= hi
             /\ focus = [NoFocus EXCEPT !.colors = cs, !.tMin = lo, !.tMax = hi]

\* A change that shuffles the whole list.
change_focus_color_shuffle_all(t, d, shuffled) ==
    /\ d \in focus.tMin..focus.tMax
    /\ \E all \in Shuffles(focus.colors) :
          focus' = [focus EXCEPT !.colors = all,
                                 !.t_next_change_focus_color = t + d,
                                 !.called = TRUE,
                                 !.before = Head(focus.colors),
                                 !.t = t]
    /\ UNCHANGED <<displayVars, app, ctor, gens, rep, ring, seqrun>>

\* A change that counts the next change time from 0.
change_focus_color_from_zero(t, d, shuffled) ==
    /\ d \in focus.tMin..focus.tMax
    /\ shuffled \in Shuffles(Tail(focus.colors))
    /\ focus' = [focus EXCEPT !.colors = Append(shuffled, Head(focus.colors)),
                              !.t_next_change_focus_color = d,
                              !.called = TRUE,
                              !.before = Head(focus.colors),
                              !.t = t]
    /\ UNCHANGED <<displayVars, app, ctor, gens, rep, ring, seqrun>>

\* change_focus_color(t): d = uniform(tMin, tMax);
\* self.t_next_change_focus_color = t + d; c = colors.pop(0);
\* shuffle(colors); colors.append(c).  shuffled is the outcome of the
\* shuffle of the rest.
change_focus_color(t, d, shuffled) ==
    /\ d \in focus.tMin..focus.tMax
    /\ shuffled \in Shuffles(Tail(focus.colors))
    /\ focus' = [focus EXCEPT !.colors = Append(shuffled, Head(focus.colors)),
                              !.t_next_change_focus_color = t + d,
                              !.called = TRUE,
                              !.before = Head(focus.colors),
                              !.t = t]
    /\ UNCHANGED <<displayVars, app, ctor, gens, rep, ring, seqrun>>

ColorNext ==
    \E t \in 0..MaxGenT, d \in 1..MaxDelay :
        \E shuffled \in UNION {[1..n -> Palette] : n \in 0..MaxColors} :
            change_focus_color(t, d, shuffled)

ColorSpec == ColorInit /\ [][ColorNext]_vars

----------------------------------------------------------------------------
\* One SequenceStimuli over several runs of the loop: each main_loop()
\* starts _main_loop with a fresh tic, so t starts again near 0, while the
\* object and its self.idx stay.  Times are whole numbers of one time unit.

\* A SequenceStimuli after __init__ (setup() has set self.idx = -1), and
\* the first run started.
SeqRunInit ==
    /\ running = FALSE
    /\ pixmap = place_img(PromptImg)
    /\ pixmap_container = None
    /\ rlock = FreeLock
    /\ threads = [w \in Threads |-> NoThread]
    /\ ui = "idle"
    /\ now = 0
    /\ lastOp = "none"
    /\ lastPubImg = PromptImg
    /\ app = [wait |-> FALSE, phase |-> "none", keyerr |-> "none"]
    /\ ctor = "done"
    /\ gens = NoGens
    /\ rep = NoLoop
    /\ ring = NoRing
    /\ focus = NoFocus
    /\ \E pb \in {0, 1}, d \in {1, 2}, pa \in {0, 1}, n \in 1..MaxImages :
          seqrun = [NoSeqRun EXCEPT
                       !.cfg = [paddingBefore |-> pb, duration |-> d,
                                paddingAfter |-> pa, N |-> n],
                       !.runs = 1, !.alive = TRUE]

\* The loop of the current run calls generate_img(t), t not before the t of
\* its last call: idx = int(t // self.trial_length); if idx > self.idx the
\* index is stored and the 'Display img' line logged; then the read of the
\* unassigned img raises and the exception ends the loop.
SeqRunGenerate(t) ==
    /\ seqrun.alive
    /\ t >= seqrun.t
    /\ LET idx == t \div trial_length(seqrun.cfg)
           newer == idx > seqrun.idx
       IN  seqrun' = [seqrun EXCEPT
                         !.idx = IF newer THEN idx ELSE seqrun.idx,
                         !.events = IF newer THEN Append(seqrun.events, idx)
                                    ELSE seqrun.events,
                         !.reached = seqrun.reached \cup {idx},
                         !.t = t,
                         !.alive = FALSE]
    /\ UNCHANGED <<displayVars, app, ctor, gens, rep, ring, focus>>

\* main_loop() again on the same object after its loop has ended: a new
\* _main_loop with tic = time.time(); nothing resets self.idx.
SeqRunRestart ==
    /\ ~seqrun.alive
    /\ seqrun.runs < MaxRuns
    /\ seqrun' = [seqrun EXCEPT !.runs = seqrun.runs + 1, !.alive = TRUE,
                                !.t = 0, !.reached = {}, !.events = <<>>]
    /\ UNCHANGED <<displayVars, app, ctor, gens, rep, ring, focus>>

SeqRunNext == SeqRunRestart \/ \E t \in 0..MaxGenT : SeqRunGenerate(t)

SeqRunSpec == SeqRunInit /\ [][SeqRunNext]_vars

----------------------------------------------------------------------------
\* Properties

\* A thread inside a block guarded by acquire_lock().
WorkerInBlock(w) == threads[w].pc = "store"
UiInBlock == ui = "locked"

\* No frame generated by a thread has been stored yet.
NothingPublished == lastPubImg.src # "gen"

\* C1: at most one render worker is active in every reachable state; a
\* main_loop() while the loop is already running spawns no second worker.
C1_OneWorkerPerLoop == Cardinality(AliveThreads) <= 1

\* C2: after a stop_running() that no main_loop() follows, the worker
\* eventually exits (no thread stays alive), under fair scheduling.
C2_StopLeadsToExit ==
    (lastOp = "stop") ~> (lastOp # "stop" \/ AliveThreads = {})

\* C3: once stop_running() has completed and no main_loop() follows it, the
\* frame slot pixmap is never written again.
C3_NoPublishAfterStop ==
    [][(lastOp = "stop" /\ lastOp' = "stop") => pixmap' = pixmap]_vars

\* C4: the worker's publish block and the UI thread's repaint block are
\* mutually exclusive: never are two threads inside a block guarded by
\* acquire_lock().
C4_MutualExclusion ==
    /\ \A w \in Threads : ~(WorkerInBlock(w) /\ UiInBlock)
    /\ \A v, w \in Threads : (WorkerInBlock(v) /\ WorkerInBlock(w)) => v = w

\* C4 witness: the UI thread is inside repaint's block while a worker that
\* passed its running check waits for the lock.
C4_Witness == UiInBlock /\ \E w \in Threads : threads[w].pc = "acquire"

\* C5: every read of the frame slot by repaint returns exactly the frame of
\* the most recent completed store: what repaint paints has the content of
\* the last image stored, unaltered.
C5_LatestValueWins ==
    [][(ui = "locked" /\ ui' = "idle") =>
          /\ pixmap_container'.kind = "pixmap"
          /\ pixmap_container'.src = lastPubImg.src
          /\ pixmap_container'.t = lastPubImg.t]_vars

\* C5 witness: repaint has painted a generated frame of a later elapsed time
\* and that frame is still the one in the slot.
C5_Witness ==
    /\ ui = "idle"
    /\ pixmap_container.src = "gen"
    /\ pixmap_container.t > 0
    /\ pixmap_container = pixmap

\* C6 (as claimed): before the worker has published any frame the slot is
\* empty, so a repaint before the first publish paints nothing.
C6_EmptyBeforeFirstPublish ==
    NothingPublished => ~Truthy(pixmap_container)

\* C6 (amended): before the worker has published any frame the slot holds
\* the prompt image placed at construction, and a repaint before the first
\* publish paints the prompt image (the window shows nothing or the prompt).
C6_PromptBeforeFirstPublish ==
    NothingPublished =>
        /\ pixmap.kind = "pixmap" /\ pixmap.src = "prompt"
        /\ pixmap_container \in {None, pixmap}

\* C6 witness: a worker is running, has published nothing yet, and a repaint
\* has painted the prompt image.
C6_Witness ==
    /\ NothingPublished
    /\ AliveThreads # {}
    /\ pixmap_container.src = "prompt"

\* C7: when generate_img raises, the exception is caught in the worker (it
\* does not leave the thread uncaught) and running becomes False.
C7_GenerateErrorStopsLoop ==
    [][\A w \in Threads :
          (threads[w].pc = "generate" /\ threads'[w].pc \notin {"generate", "check"})
              => (threads'[w].pc # "uncaught" /\ ~running')]_vars

\* C8: when generate_img raises during an iteration the frame slot is left
\* unchanged and still holds a frame (never an empty value).
C8_FailedGenerateKeepsFrame ==
    [][\A w \in Threads :
          (threads[w].pc = "generate" /\ threads'[w].pc = "uncaught")
              => (pixmap' = pixmap /\ Truthy(pixmap'))]_vars

\* C8 witness: a worker has died in generate_img and the slot holds a frame
\* published before.
C8_Witness ==
    \E w \in Threads : threads[w].pc = "uncaught" /\ pixmap.src = "gen"

\* C9: after stop_running() followed by main_loop(), the worker that ran
\* before the stop eventually exits: at most one worker stays alive.
C9_RestartLeavesOneWorker ==
    (lastOp = "restart") ~> (lastOp # "restart" \/ Cardinality(AliveThreads) <= 1)

\* C10: each run of _main_loop captures its clock origin tic once, when it
\* starts; the origin is not modified while that run lasts; and the elapsed
\* time of every frame of the run is now - tic of that run.
C10_FreshClockOrigin ==
    [][\A w \in Threads :
          /\ (threads[w].pc = "spawned" /\ threads'[w].pc = "while")
                => threads'[w].tic = now
          /\ (threads[w].pc \notin {"none", "spawned"} /\ Alive(w)' )
                => threads'[w].tic = threads[w].tic
          /\ (threads[w].pc = "while" /\ threads'[w].pc = "generate")
                => threads'[w].t = now - threads[w].tic]_vars

\* C10 witness: after a restart at a later clock time, while the worker of
\* the previous run is still alive, the new worker's frame has elapsed time 0.
C10_Witness ==
    /\ lastOp = "restart"
    /\ \E v, w \in Threads :
          /\ v < w /\ Alive(v) /\ threads[v].pc # "spawned"
          /\ threads[w].pc = "check"
          /\ threads[w].tic > threads[v].tic
          /\ threads[w].t = 0

\* C11: on quit the application stops the render loop and the worker has
\* exited (was joined) before the process exits.
C11_WorkerExitsBeforeProcessExit ==
    app.phase = "exited" => (~running /\ AliveThreads = {})

\* C12: repaint never raises and changes nothing on screen when the frame
\* slot is empty (None): having acquired the lock it sees no frame, releases
\* the lock and returns.
C12_RepaintEmptyIsNoOp ==
    [][(ui = "locked" /\ ~Truthy(pixmap) /\ ui' # "locked") =>
          /\ ui' = "idle"
          /\ pixmap_container' = pixmap_container
          /\ rlock' = FreeLock]_vars

\* C12 witness: the UI thread is inside repaint with the slot empty while a
\* started worker has not published yet.
C12_Witness ==
    /\ ui = "locked" /\ ~Truthy(pixmap)
    /\ \E w \in Threads : threads[w].pc = "generate"

C14_GenerateLeavesStateUnchanged ==
    [][\A c \in Copies : gens'.copy[c].idx = gens.copy[c].idx]_vars

RECURSIVE Pow2(_)
Pow2(n) == IF n = 0 THEN 1 ELSE 2 * Pow2(n - 1)

\* What one step may do to the report: a sample is printed only by the
\* report of an iteration whose t is past the deadline, and doubles it.
ReportStepOk ==
    /\ rep'.nsamples # rep.nsamples =>
          /\ rep.pc = "report"
          /\ rep.t > rep.next_report_time
          /\ rep.t > report_interval
          /\ rep'.nsamples = rep.nsamples + 1
          /\ rep'.next_report_time = 2 * rep.next_report_time
          /\ rep'.pc = "while"
    /\ rep'.next_report_time # rep.next_report_time =>
          rep'.nsamples # rep.nsamples
    /\ (rep.pc = "report" /\ rep'.pc # "report"
            /\ rep.t > rep.next_report_time) =>
          rep'.nsamples = rep.nsamples + 1

C16_RingRadius ==
    ring.called =>
        LET cem == ring.cfg
            wrapped == ring.t - cem.duration * (ring.t \div cem.duration)
        IN  /\ ring.r.den = cem.duration
            /\ ring.r.num = cem.minRadius * cem.duration
                                + wrapped * (cem.maxRadius - cem.minRadius)
            /\ cem.minRadius * ring.r.den <= ring.r.num
            /\ ring.r.num < cem.maxRadius * ring.r.den
            /\ ring.rNext = ring.r
            /\ (cem.minRadius = 50 /\ cem.maxRadius = 150 /\ cem.duration = 4) =>
                  /\ ring.t \in {0, 4} => ring.r.num = 50 * ring.r.den
                  /\ ring.t = 2 => ring.r.num = 100 * ring.r.den

\* C16 witness: the ring of the scenario after a full period, back at 50.
C16_Witness ==
    /\ ring.called /\ ring.t = 4
    /\ ring.cfg = [minRadius |-> 50, maxRadius |-> 150, duration |-> 4]
    /\ ring.r = Frac(200, 4)

\* C17: a call generate_img(t) on the image sequence returns a frame, and
\* the image in it is the one at index floor(t / trial_length) mod N.
C17_ImageAtIndex ==
    \A c \in Copies :
        (gens.cls = "sequence" /\ gens.copy[c].calls > 0) =>
            /\ gens.copy[c].out.kind = "img"
            /\ gens.copy[c].out.t =
                  (gens.copy[c].t \div trial_length(gens.cfg)) % gens.cfg.N

\* The elements of s are pairwise different.
Distinct(s) == \A i, j \in DOMAIN s : i # j => s[i] # s[j]

C19_RunningOnceStarted ==
    (lastOp \in {"start", "restart"}
        /\ \A w \in Threads : threads[w].pc # "uncaught")
    => running

\* C20: every write to the pixmap slot is made while the lock is held, the
\* worker's publish and place_img's store of the prompt image alike.
C20_EveryWriteUnderLock ==
    [][(pixmap' # pixmap \/ ctor' # ctor) => rlock.count > 0]_vars

\* C20, amended: a worker writes the slot only while it holds the lock;
\* the one other write is place_img's store of the prompt image in the
\* constructor, made without the lock and before any thread is started.
C20_WorkerWritesUnderLock ==
    [][(pixmap' # pixmap \/ ctor' # ctor) =>
          \/ \E w \in Threads :
                /\ threads[w].pc = "store" /\ threads'[w].pc # "store"
                /\ rlock.owner = w /\ rlock.count > 0
                /\ ctor' = ctor
          \/ /\ ctor = "init" /\ ctor' = "done"
             /\ rlock = FreeLock /\ rlock' = FreeLock
             /\ Spawned = {}]_vars

\* C20 witness: the prompt was placed by the constructor and a worker is in
\* its block, about to store its first frame, holding the lock.
C20_Witness ==
    /\ ctor = "done" /\ lastPubImg = PromptImg
    /\ \E w \in Threads :
          /\ threads[w].pc = "store"
          /\ rlock.owner = w /\ rlock.count > 0

\* C21: the lock is released on every way out of a guarded block, a raise
\* of the body included: whenever no thread is inside a guarded block the
\* lock is free, and a held lock always belongs to a thread that is inside
\* its block and can leave it, so nobody waits for the lock forever.
C21_LockFreeOutsideBlocks ==
    /\ ((\A w \in Threads : ~WorkerInBlock(w)) /\ ~UiInBlock) => rlock = FreeLock
    /\ rlock.count > 0 =>
          \/ rlock.owner = UiThread /\ UiInBlock
          \/ rlock.owner \in Threads /\ WorkerInBlock(rlock.owner)

\* C21 witness: a worker died of a raise inside its publish block, the lock
\* is free, and the UI thread has taken it since.
C21_Witness ==
    /\ \E w \in Threads :
          threads[w].pc = "uncaught" /\ threads[w].img.kind = "img"
    /\ UiInBlock /\ rlock.owner = UiThread

\* A step in which the UI thread hands a pixmap to the window.
PaintStep == ui = "locked" /\ pixmap_container' # pixmap_container

\* C22: while the lock is held only the read or the reference swap of the
\* slot takes place: a worker inside its block already holds the converted
\* pixmap, and no painting to the window is done by a step of the block.
C22_OnlySwapUnderLock ==
    /\ [](\A w \in Threads : WorkerInBlock(w) => threads[w].img.kind = "pixmap")
    /\ [][PaintStep => rlock.owner # UiThread]_vars

\* C23: the lock is never acquired by a thread that already holds it: its
\* hold count is 0 or 1 in every reachable state, and an acquisition starts
\* from a free lock.
C23_NoNestedAcquisition ==
    /\ [](rlock.count \in {0, 1})
    /\ [](rlock.count = 0 <=> rlock.owner = -1)
    /\ [][rlock'.count > rlock.count => rlock = FreeLock]_vars

\* C23 witness: a worker holds the lock once while a second worker waits
\* for it and the UI thread is outside its block.
C23_Witness ==
    /\ rlock.count = 1 /\ rlock.owner \in Threads /\ ui = "idle"
    /\ \E v \in Threads : v # rlock.owner /\ threads[v].pc = "acquire"

\* The frame in the slot was stored after the latest main_loop(): its
\* elapsed time is larger than the clock origin of the newest worker, so it
\* was stored at a later time than that worker started at.
StoredSinceLatestStart ==
    LET newest == Cardinality(Spawned)
    IN  /\ newest > 0
        /\ threads[newest].pc \notin {"spawned", "done", "uncaught"}
        /\ lastPubImg.src = "gen"
        /\ lastPubImg.t > threads[newest].tic

\* C24: between one main_loop() and the next the elapsed times of the
\* frames published one after the other never decrease, for every sequence
\* of main_loop() and stop_running() calls and every interleaving.
C24_PublishedTimesNonDecreasing ==
    [][\A w \in Threads :
          (threads[w].pc = "store" /\ threads'[w].pc # "store"
              /\ StoredSinceLatestStart)
          => lastPubImg'.t >= lastPubImg.t]_vars

\* What one step of the application may do to the workers: a worker is
\* spawned only by the start key in wait mode or by the start-up without
\* -w, and a tick that ends while nothing was ever spawned leaves the
\* prompt image in the window.
SpawnStepOk ==
    /\ Spawned' # Spawned =>
          \/ app.wait /\ app.phase = "exec" /\ app' = app
          \/ ~app.wait /\ app.phase = "main" /\ app'.phase = "exec"
    /\ (Spawned = {} /\ ui = "locked" /\ ui' = "idle") =>
          /\ pixmap_container'.kind = "pixmap"
          /\ pixmap_container'.src = "prompt"

\* C25: in wait mode no worker exists and generate_img is not called until
\* the start key is pressed, and until then every tick paints the prompt
\* image; without -w exactly one worker is spawned, at start-up, and the
\* start key never spawns one.
C25_WaitModeStartsOnKey ==
    /\ [](~app.wait =>
             Cardinality(Spawned) = (IF app.phase = "main" THEN 0 ELSE 1))
    /\ []((app.wait /\ app.phase = "main") => Spawned = {})
    /\ [](Spawned = {} => (NothingPublished /\ pixmap.src = "prompt"))
    /\ [][SpawnStepOk]_vars

\* C25 witness: wait mode, the event loop runs, the start key has not
\* started anything yet and a tick has painted the prompt image.
C25_Witness ==
    /\ app.wait /\ app.phase = "exec"
    /\ Spawned = {}
    /\ pixmap_container.src = "prompt" /\ ui = "idle"

\* The number of 'Display img' lines of the current run for trial k.
EventsFor(k) == Cardinality({i \in DOMAIN seqrun.events : seqrun.events[i] = k})

\* C26: for every trial index k reached during a run, a run after a
\* restart included, exactly one 'Display img' line is logged in that run;
\* self.idx never decreases.
C26_OneEventPerTrial ==
    /\ [](\A k \in seqrun.reached : EventsFor(k) = 1)
    /\ [][seqrun'.idx >= seqrun.idx]_vars

\* What one step may do on the way out: the quit key's aboutToQuit runs
\* stop_running() (running becomes False), the process exits only after it,
\* and an exception in the key handler is logged and changes nothing else.
QuitStepOk ==
    /\ (app.phase = "quitting" /\ app'.phase # "quitting") =>
          /\ app'.phase = "stopped"
          /\ ~running' /\ lastOp' = "stop"
    /\ app'.phase = "exited" => app.phase \in {"stopped", "exited"}
    /\ app'.keyerr # app.keyerr =>
          /\ app'.keyerr = "logged"
          /\ app'.phase = app.phase /\ app.phase = "exec"
          /\ displayVars' = displayVars

\* C27: the quit key always leads to stop_running() being executed before
\* the process exits (after the key the handler of aboutToQuit can run, and
\* after it the exit), and an exception raised while a key press is handled
\* is caught and logged in the handler, never passed to the event loop.
C27_QuitStopsBeforeExit ==
    /\ [](app.phase \in {"stopped", "exited"} => lastOp = "stop")
    /\ [](app.phase = "quitting" => ENABLED about_to_quit)
    /\ [](app.phase = "stopped" => ENABLED ProcessExit)
    /\ [](app.keyerr # "propagated")
    /\ [][QuitStepOk]_vars

\* C27 witness: a key press raised and was logged, later the quit key was
\* pressed, stop_running() ran and the process has exited.
C27_Witness ==
    /\ app.phase = "exited" /\ app.keyerr = "logged"
    /\ lastOp = "stop"
    /\ Spawned # {}

\* The number of times colour c is in the list s.
Count(s, c) == Cardinality({i \in DOMAIN s : s[i] = c})

\* What a change_focus_color does: the list keeps its length and its
\* colours, the old head is last, and the next change time is the t of the
\* call plus a d between tMin and tMax.
ColorStepOk ==
    focus' # focus =>
        /\ Len(focus'.colors) = Len(focus.colors)
        /\ \A c \in Palette : Count(focus'.colors, c) = Count(focus.colors, c)
        /\ focus'.colors[Len(focus'.colors)] = Head(focus.colors)
        /\ focus'.tMin = focus.tMin /\ focus'.tMax = focus.tMax
        /\ focus'.t_next_change_focus_color - focus'.t \in focus.tMin..focus.tMax

====
